---- MODULE Spec2Model ----
(***************************************************************************)
(* school-management-backend: the Express routers and the Student and      *)
(* Teacher controllers over the Sequelize store.                           *)
(*                                                                         *)
(* A request is handled by one process p.  A handler runs from one         *)
(* suspension point (await of a storage call) to the next as one step;     *)
(* steps of different requests interleave.  resp is the response a step    *)
(* has just written, until it is sent.  Text that the code converts    *)
(* (query parameters, error messages) is a sequence of one-character       *)
(* strings, with the literals of the code kept as single fragments; text   *)
(* that the code only stores and compares (names, emails, passwords) is a  *)
(* plain string.  createdAt order is id order: ids are assigned in         *)
(* creation order and no handler sets createdAt.                           *)
(***************************************************************************)
EXTENDS Integers, Sequences, FiniteSets, TLC

VARIABLES students, teachers, courses, nextId, proc, resp

vars == <<students, teachers, courses, nextId, proc, resp>>

(***************************************************************************)
(* Bounds of the model.                                                    *)
(***************************************************************************)
\* rows created in all tables together
MaxRows == 2

Procs == {"p1", "p2"}

(***************************************************************************)
(* JavaScript conversions used by the handlers.                            *)
(***************************************************************************)
Digits == {"0", "1", "2", "3", "4", "5", "6", "7", "8", "9"}

DigitVal(c) == CHOOSE n \in 0..9 : ToString(n) = c

RECURSIVE DigitsValue(_, _, _)
\* the value of the longest run of digits of s from position i on, acc so far
DigitsValue(s, i, acc) ==
    IF i > Len(s) \/ s[i] \notin Digits
    THEN acc
    ELSE DigitsValue(s, i + 1, (acc * 10) + DigitVal(s[i]))

\* parseInt(s): an optional sign, then digits up to the first other character;
\* NaN when no digit follows the sign.  A missing parameter is the empty text.
parseInt(s) ==
    LET neg == Len(s) > 0 /\ s[1] = "-"
        start == IF Len(s) > 0 /\ s[1] \in {"-", "+"} THEN 2 ELSE 1
    IN IF start > Len(s) \/ s[start] \notin Digits
       THEN [nan |-> TRUE, val |-> 0]
       ELSE [nan |-> FALSE,
             val |-> IF neg THEN 0 - DigitsValue(s, start, 0)
                            ELSE DigitsValue(s, start, 0)]

\* parseInt(x) || d : NaN and 0 are falsy
OrDefault(n, d) == IF n.nan \/ n.val = 0 THEN d ELSE n.val

LowerCase == <<"a", "b", "c", "d", "e", "f", "g", "h", "i", "j", "k", "l", "m",
               "n", "o", "p", "q", "r", "s", "t", "u", "v", "w", "x", "y", "z">>
UpperCase == <<"A", "B", "C", "D", "E", "F", "G", "H", "I", "J", "K", "L", "M",
               "N", "O", "P", "Q", "R", "S", "T", "U", "V", "W", "X", "Y", "Z">>

UpperChar(c) ==
    IF \E i \in 1..26 : LowerCase[i] = c
    THEN UpperCase[CHOOSE i \in 1..26 : LowerCase[i] = c]
    ELSE c

toUpperCase(s) == [i \in 1..Len(s) |-> UpperChar(s[i])]

RECURSIVE SplitFrom(_, _, _, _)
\* s.split(sep) from position i on, cur being the entry read so far
SplitFrom(s, sep, i, cur) ==
    IF i > Len(s) THEN <<cur>>
    ELSE IF s[i] = sep THEN <<cur>> \o SplitFrom(s, sep, i + 1, <<>>)
    ELSE SplitFrom(s, sep, i + 1, Append(cur, s[i]))

split(s, sep) == SplitFrom(s, sep, 1, <<>>)

RECURSIVE join(_, _)
\* list.join(sep)
join(list, sep) ==
    IF Len(list) = 0 THEN <<>>
    ELSE IF Len(list) = 1 THEN list[1]
    ELSE list[1] \o sep \o join(Tail(list), sep)

RECURSIVE filter(_, _)
\* list.filter(rel => !valid.includes(rel))
filter(list, valid) ==
    IF Len(list) = 0 THEN <<>>
    ELSE IF \E i \in 1..Len(valid) : valid[i] = Head(list)
         THEN filter(Tail(list), valid)
         ELSE <<Head(list)>> \o filter(Tail(list), valid)

includes(list, x) == \E i \in 1..Len(list) : list[i] = x

\* Math.floor in the place of Math.ceil
MathFloor(a, b) == a \div b

\* Math.ceil(a / b) of the real quotient, b # 0
RECURSIVE CeilFrom(_, _, _)
CeilFrom(a, b, n) ==
    \* the least integer n with n >= a / b, searched upward from a lower bound
    IF (b > 0 /\ n * b >= a) \/ (b < 0 /\ n * b <= a) THEN n
    ELSE CeilFrom(a, b, n + 1)

MathCeil(a, b) == CeilFrom(a, b, 0 - (IF a < 0 THEN 0 - a ELSE a))

(***************************************************************************)
(* Requests.                                                               *)
(***************************************************************************)
Root == <<>>
CourseIdText == <<"c", "o", "u", "r", "s", "e", "I", "d">>

\* raw query parameters; the empty text also stands for a missing parameter
\* (undefined and "" are both falsy and both parse to NaN)
LimitParams == {<<>>, <<"0">>, <<"2">>, <<"-", "1">>}
PageParams == {<<>>, <<"0">>, <<"2">>, <<"-", "1">>}
SortParams == {<<>>, <<"D", "e", "s", "c">>, <<"u", "p">>}
PopulateParams == {<<>>, CourseIdText, CourseIdText \o <<",", "x", ",", "y">>}

ListQueries == [limit : LimitParams, page : PageParams,
                sort : SortParams, populate : PopulateParams]
IdQueries == [limit : {<<>>}, page : {<<>>}, sort : {<<>>},
              populate : PopulateParams]
NoQuery == [limit |-> <<>>, page |-> <<>>, sort |-> <<>>, populate |-> <<>>]
NoBody == [empty |-> TRUE]

\* the Authorization header, as the validation gate classifies it
Auths == {"none", "expired", "valid"}

\* the :id path parameter
IdParams == {ToString(i) : i \in 1..(MaxRows + 1)}

Request(router, method, path, query, body) ==
    [router |-> router, method |-> method, path |-> path,
     query |-> query, body |-> body]

(***************************************************************************)
(* Routing: a router is its layers in registration order.                  *)
(***************************************************************************)
Route(method, path, handler) ==
    [kind |-> "route", method |-> method, path |-> path, handler |-> handler]
Use(middleware) ==
    [kind |-> "use", method |-> "*", path |-> <<>>, handler |-> middleware]

StudentRouter ==
    << Route("POST", Root, "createStudent"),
       Route("GET", Root, "getAllStudents"),
       Route("GET", <<":id">>, "getStudentById"),
       Route("PUT", <<":id">>, "updateStudent"),
       Route("DELETE", <<":id">>, "deleteStudent") >>

TeacherRouter ==
    << Route("POST", <<"register">>, "registerTeacher"),
       Route("POST", <<"login">>, "loginTeacher"),
       Use("validation"),
       Route("GET", <<"checkTeacherAuth">>, "checkTeacherAuth"),
       Route("POST", Root, "createTeacher"),
       Route("GET", Root, "getAllTeachers"),
       Route("GET", <<":id">>, "getTeacherById"),
       Route("PUT", <<":id">>, "updateTeacher"),
       Route("DELETE", <<":id">>, "deleteTeacher") >>

\* the Course router without its router.use(validation)
CourseRouterOpen ==
    << Route("POST", Root, "createCourse"),
       Route("GET", Root, "getAllCourses"),
       Route("GET", <<":id">>, "getCourseById"),
       Route("PUT", <<":id">>, "updateCourse"),
       Route("DELETE", <<":id">>, "deleteCourse") >>

CourseRouter ==
    << Use("validation"),
       Route("POST", Root, "createCourse"),
       Route("GET", Root, "getAllCourses"),
       Route("GET", <<":id">>, "getCourseById"),
       Route("PUT", <<":id">>, "updateCourse"),
       Route("DELETE", <<":id">>, "deleteCourse") >>

\* the mount points of the three routers
RouterOf(name) ==
    CASE name = "students" -> StudentRouter
      [] name = "teachers" -> TeacherRouter
      [] name = "courses" -> CourseRouter

\* the validation gate: lets a request through iff it carries a valid token
validation(auth) == auth = "valid"

PathMatches(pattern, path) ==
    /\ Len(pattern) = Len(path)
    /\ \A i \in 1..Len(pattern) : pattern[i] = ":id" \/ pattern[i] = path[i]

RECURSIVE Walk(_, _, _, _, _)
\* the layers from i on, tried in order; gate tells whether the gate has run
Walk(layers, i, req, auth, gate) ==
    IF i > Len(layers) THEN [handler |-> "notFound", gate |-> gate]
    ELSE IF layers[i].kind = "use"
         THEN IF validation(auth)
              THEN Walk(layers, i + 1, req, auth, "accepted")
              ELSE [handler |-> "rejected", gate |-> "rejected"]
    ELSE IF layers[i].method = req.method /\ PathMatches(layers[i].path, req.path)
         THEN [handler |-> layers[i].handler, gate |-> gate]
    ELSE Walk(layers, i + 1, req, auth, gate)

Dispatch(req, auth) == Walk(RouterOf(req.router), 1, req, auth, "skipped")

\* the request reaches handler h; the result is what the gate did on the way
Routed(req, auth, h) == Dispatch(req, auth).handler = h

(***************************************************************************)
(* Storage rows and queries.                                               *)
(***************************************************************************)
StudentRow(id, body) == [id |-> id, title |-> body.title, TeacherId |-> body.TeacherId]

\* the rows eager-loaded through an include; the association is not modelled
Joined == [model |-> "Course"]

StudentWith(row, include) ==
    IF Len(include) = 0 THEN row
    ELSE [id |-> row.id, title |-> row.title, TeacherId |-> row.TeacherId,
          Courses |-> Joined]

RECURSIVE OrderAsc(_)
\* the rows by createdAt ascending
OrderAsc(rows) ==
    IF rows = {} THEN <<>>
    ELSE LET first == CHOOSE r \in rows : \A o \in rows : r.id <= o.id
         IN <<first>> \o OrderAsc(rows \ {first})

Reverse(s) == [i \in 1..Len(s) |-> s[Len(s) + 1 - i]]

Order(rows, sort) ==
    IF sort = <<"D", "E", "S", "C">> THEN Reverse(OrderAsc(rows)) ELSE OrderAsc(rows)

Min(a, b) == IF a < b THEN a ELSE b

\* LIMIT limit OFFSET offset of an ordered result
Slice(s, limit, offset) ==
    LET from == IF offset < 0 THEN 0 ELSE offset
        upto == IF limit < 0 THEN Len(s) ELSE Min(Len(s), from + limit)
    IN SubSeq(s, from + 1, upto)

\* what a query with a negative LIMIT or OFFSET does depends on the dialect:
\* it is rejected, or the negative value is taken as absent
FindAllOutcomes(limit, offset) ==
    IF limit < 0 \/ offset < 0 THEN {"throws", "rows"} ELSE {"rows"}

(***************************************************************************)
(* State.                                                                  *)
(***************************************************************************)
Idle == [pc |-> "idle"]
NoResp == [handler |-> "none"]

Init ==
    /\ students = {}
    /\ teachers = {}
    /\ courses = {}
    /\ nextId = [Student |-> 1, Teacher |-> 1, Course |-> 1]
    /\ proc = [p \in Procs |-> Idle]
    /\ resp = NoResp

\* the handler suspends at an await; pc names the storage call it resumes after
Suspend(p, pc, handler, gate, req, loc, io) ==
    /\ proc' = [proc EXCEPT ![p] = [pc |-> pc, handler |-> handler, gate |-> gate,
                                    req |-> req, loc |-> loc, io |-> io]]
    /\ resp' = NoResp

\* res.status(status).json(body): the request is over
Respond(p, handler, gate, req, status, body, loc, io) ==
    /\ proc' = [proc EXCEPT ![p] = Idle]
    /\ resp' = [handler |-> handler, gate |-> gate, req |-> req,
                status |-> status, body |-> body, loc |-> loc, io |-> io]

\* the response leaves; the event loop then runs the next callback
send ==
    /\ resp # NoResp
    /\ resp' = NoResp
    /\ UNCHANGED <<students, teachers, courses, nextId, proc>>

\* the callback of p at pc is the next to run
At(p, pc) == resp = NoResp /\ proc[p].pc = pc

\* the rows created so far, and those a suspended handler is about to create
Created == (nextId.Student - 1) + (nextId.Teacher - 1) + (nextId.Course - 1)
Creating == Cardinality({p \in Procs : proc[p].pc = "registerTeacher:create"})
Room == Created + Creating < MaxRows

\* instance.update(body): the body's fields overwrite the instance's
Merge(row, body) ==
    [f \in DOMAIN row |-> IF f \in DOMAIN body THEN body[f] ELSE row[f]]

\* attributes: [...] of a query
Pick(row, attributes) == [f \in attributes |-> row[f]]

DbError == <<"SequelizeDatabaseError">>
NotFoundBody == [message |-> "Not found"]

NoLoc == [none |-> TRUE]

\* a lookup that takes any stored row for the row of the id
findByPkAny(rows, id) == rows

\* findByPk(req.params.id)
findByPk(rows, id) == {r \in rows : ToString(r.id) = id}

\* the include array built from populate (its only valid entry is courseId)
validRelations == <<CourseIdText>>
IncludeOf(populate) ==
    IF includes(populate, CourseIdText)
    THEN <<[model |-> "Course", as |-> "Courses"]>>
    ELSE <<>>

\* req.query.populate ? req.query.populate.split(',') : []
PopulateOf(raw) == IF Len(raw) = 0 THEN <<>> ELSE split(raw, ",")

\* req.query.sort ? req.query.sort.toUpperCase() : 'ASC'
SortOf(raw) == IF Len(raw) = 0 THEN <<"A", "S", "C">> ELSE toUpperCase(raw)

\* the check with its negation dropped
ValidSortInverted(sort) == sort \notin {<<"A", "S", "C">>, <<"D", "E", "S", "C">>}

ValidSort(sort) == sort \in {<<"A", "S", "C">>, <<"D", "E", "S", "C">>}

InvalidSortBody == [error |-> <<"Invalid sort value. Use \"asc\" or \"desc\".">>]
InvalidPopulateBody(invalidRelations) ==
    [error |-> <<"Invalid populate values: ">> \o join(invalidRelations, <<",", " ">>)]

\* the envelope of a list response
\* an envelope whose total is recounted from the rows of the page
EnvelopeOfData(data, total, page, limit) ==
    [data |-> data,
     meta |-> [total |-> Len(data), page |-> page, limit |-> limit,
               totalPages |-> MathCeil(Len(data), limit)]]

Envelope(data, total, page, limit) ==
    [data |-> data,
     meta |-> [total |-> total, page |-> page, limit |-> limit,
               totalPages |-> MathCeil(total, limit)]]

(***************************************************************************)
(* Student controller.                                                     *)
(***************************************************************************)
StudentBodies == [title : {"algebra"}, TeacherId : {1}] \cup [title : {"algebra"}]
StudentUpdates == [title : {"biology"}]

\* the Student table takes a row only with its owning TeacherId
StudentAccepts(body) == "TeacherId" \in DOMAIN body

createStudent(p) ==
    /\ At(p, "idle")
    /\ \E auth \in Auths, body \in StudentBodies :
         LET req == Request("students", "POST", Root, NoQuery, body)
             gate == Dispatch(req, auth).gate
         IN /\ Routed(req, auth, "createStudent")
            /\ IF StudentAccepts(body)
               THEN /\ Room
                    /\ students' = students \cup {StudentRow(nextId.Student, body)}
                    /\ nextId' = [nextId EXCEPT !.Student = @ + 1]
                    /\ Respond(p, "createStudent", gate, req, 201,
                               StudentRow(nextId.Student, body), NoLoc, <<"create">>)
               ELSE /\ UNCHANGED <<students, nextId>>
                    /\ Respond(p, "createStudent", gate, req, 500,
                               [error |-> DbError], NoLoc, <<"create">>)
    /\ UNCHANGED <<teachers, courses>>

\* lines 104-139: parse, validate, then the count
getAllStudents(p) ==
    /\ At(p, "idle")
    /\ \E auth \in Auths, query \in ListQueries :
         LET req == Request("students", "GET", Root, query, NoBody)
             gate == Dispatch(req, auth).gate
             limit == OrDefault(parseInt(query.limit), 10)
             page == OrDefault(parseInt(query.page), 1)
             sort == SortOf(query.sort)
             populate == PopulateOf(query.populate)
             invalidRelations == filter(populate, validRelations)
             loc == [limit |-> limit, page |-> page, sort |-> sort,
                     include |-> IncludeOf(populate),
                     total |-> Cardinality(students)]
         IN /\ Routed(req, auth, "getAllStudents")
            /\ IF ~ValidSort(sort)
               THEN Respond(p, "getAllStudents", gate, req, 400, InvalidSortBody,
                            NoLoc, <<>>)
               ELSE IF Len(invalidRelations) > 0
               THEN Respond(p, "getAllStudents", gate, req, 400,
                            InvalidPopulateBody(invalidRelations), NoLoc, <<>>)
               ELSE Suspend(p, "getAllStudents:findAll", "getAllStudents", gate, req,
                            loc, <<"count">>)
    /\ UNCHANGED <<students, teachers, courses, nextId>>

\* lines 140-157: the fetch and the envelope
getAllStudents_findAll(p) ==
    /\ At(p, "getAllStudents:findAll")
    /\ LET me == proc[p]
           loc == me.loc
           offset == (loc.page - 1) * loc.limit
           rows == Slice(Order(students, loc.sort), loc.limit, offset)
           data == [i \in 1..Len(rows) |-> StudentWith(rows[i], loc.include)]
           io == Append(me.io, "findAll")
       IN \E outcome \in FindAllOutcomes(loc.limit, offset) :
            IF outcome = "throws"
            THEN Respond(p, me.handler, me.gate, me.req, 500, [error |-> DbError],
                         loc, io)
            ELSE Respond(p, me.handler, me.gate, me.req, 200,
                         Envelope(data, loc.total, loc.page, loc.limit), loc, io)
    /\ UNCHANGED <<students, teachers, courses, nextId>>

getStudentById(p) ==
    /\ At(p, "idle")
    /\ \E auth \in Auths, id \in IdParams, query \in IdQueries :
         LET req == Request("students", "GET", <<id>>, query, NoBody)
             gate == Dispatch(req, auth).gate
             found == findByPk(students, id)
         IN /\ Routed(req, auth, "getStudentById")
            /\ IF found = {}
               THEN Respond(p, "getStudentById", gate, req, 404, NotFoundBody,
                            NoLoc, <<"findByPk">>)
               ELSE \E student \in found :
                      Respond(p, "getStudentById", gate, req, 200,
                              StudentWith(student, <<[model |-> "Course"]>>),
                              NoLoc, <<"findByPk">>)
    /\ UNCHANGED <<students, teachers, courses, nextId>>

updateStudent(p) ==
    /\ At(p, "idle")
    /\ \E auth \in Auths, id \in IdParams, body \in StudentUpdates :
         LET req == Request("students", "PUT", <<id>>, NoQuery, body)
             gate == Dispatch(req, auth).gate
             found == findByPk(students, id)
         IN /\ Routed(req, auth, "updateStudent")
            /\ IF found = {}
               THEN Respond(p, "updateStudent", gate, req, 404, NotFoundBody,
                            NoLoc, <<"findByPk">>)
               ELSE \E student \in found :
                      Suspend(p, "updateStudent:update", "updateStudent", gate, req,
                              [student |-> student], <<"findByPk">>)
    /\ UNCHANGED <<students, teachers, courses, nextId>>

\* student.update(req.body): the instance takes the body's fields and its row,
\* if it still exists, is written
updateStudent_update(p) ==
    /\ At(p, "updateStudent:update")
    /\ LET me == proc[p]
           student == Merge(me.loc.student, me.req.body)
       IN /\ students' = {IF r.id = student.id THEN student ELSE r : r \in students}
          /\ Respond(p, me.handler, me.gate, me.req, 200, student, me.loc,
                     Append(me.io, "update"))
    /\ UNCHANGED <<teachers, courses, nextId>>

deleteStudent(p) ==
    /\ At(p, "idle")
    /\ \E auth \in Auths, id \in IdParams :
         LET req == Request("students", "DELETE", <<id>>, NoQuery, NoBody)
             gate == Dispatch(req, auth).gate
             found == findByPk(students, id)
         IN /\ Routed(req, auth, "deleteStudent")
            /\ IF found = {}
               THEN Respond(p, "deleteStudent", gate, req, 404, NotFoundBody,
                            NoLoc, <<"findByPk">>)
               ELSE \E student \in found :
                      Suspend(p, "deleteStudent:destroy", "deleteStudent", gate, req,
                              [student |-> student], <<"findByPk">>)
    /\ UNCHANGED <<students, teachers, courses, nextId>>

deleteStudent_destroy(p) ==
    /\ At(p, "deleteStudent:destroy")
    /\ LET me == proc[p]
       IN /\ students' = {r \in students : r.id # me.loc.student.id}
          /\ Respond(p, me.handler, me.gate, me.req, 200, [message |-> "Deleted"],
                     me.loc, Append(me.io, "destroy"))
    /\ UNCHANGED <<teachers, courses, nextId>>

StudentStep(p) ==
    \/ createStudent(p)
    \/ getAllStudents(p)
    \/ getAllStudents_findAll(p)
    \/ getStudentById(p)
    \/ updateStudent(p)
    \/ updateStudent_update(p)
    \/ deleteStudent(p)
    \/ deleteStudent_destroy(p)

(***************************************************************************)
(* Teacher controller.                                                     *)
(***************************************************************************)
\* bcrypt.hash(password, rounds): salted, so the hash never is the password
Null == [null |-> TRUE]
bcryptHash(password, rounds) ==
    [alg |-> "bcrypt", rounds |-> rounds, salt |-> "salt", password |-> password]

\* the promise of bcrypt.compare taken for its result: truthy for any hash
bcryptCompareUnawaited(password, hash) == "alg" \in DOMAIN hash

\* bcrypt.compare(password, hash), for a hash that is a string
bcryptCompare(password, hash) ==
    /\ "alg" \in DOMAIN hash
    /\ hash.alg = "bcrypt"
    /\ hash.password = password

\* jwt.sign(payload, secret, {expiresIn: '1h'}) at time iat (seconds)
OneHour == 3600
jwtSign(payload, secret, iat) ==
    [payload |-> payload, iat |-> iat, exp |-> iat + OneHour, secret |-> secret]

JWT_SECRET_TOKEN == "process.env.JWT_SECRET_TOKEN"

\* the clock readings a token may be signed at
Times == {0, 1800}

\* a row that loses the department it was created with
TeacherRowNoDepartment(id, name, department, email, password_hash) ==
    [id |-> id, name |-> name, department |-> "", email |-> email,
     password_hash |-> password_hash]

TeacherRow(id, name, department, email, password_hash) ==
    [id |-> id, name |-> name, department |-> department, email |-> email,
     password_hash |-> password_hash]

TeacherWith(row, include) ==
    IF Len(include) = 0 THEN row
    ELSE [id |-> row.id, name |-> row.name, department |-> row.department,
          email |-> row.email, password_hash |-> row.password_hash,
          Courses |-> Joined]

\* a field that is missing or empty is falsy: "" stands for both
RegisterBodies == [name : {"ann", "bob", ""}, department : {"math", ""},
                   email : {"ann@school.io", ""}, password : {"pw1", ""}]
LoginBodies == [email : {"ann@school.io", "bob@school.io", ""},
                password : {"pw1", "pw2", ""}]
TeacherBodies ==
    [name : {"ann"}, department : {"math"}, email : {"ann@school.io"},
     password_hash : {bcryptHash("pw2", 10)}]
    \cup [name : {"ann"}, department : {"math"}, email : {"ann@school.io"}]
TeacherUpdates == [name : {"bob"}]

MissingFieldsBody == [success |-> FALSE, message |-> "Missing required fields"]

\* lines 64-77: the required fields, then the lookup of the triple
registerTeacher(p) ==
    /\ At(p, "idle")
    /\ \E auth \in Auths, body \in RegisterBodies :
         LET req == Request("teachers", "POST", <<"register">>, NoQuery, body)
             gate == Dispatch(req, auth).gate
             query == {t \in teachers : /\ t.name = body.name
                                        /\ t.department = body.department
                                        /\ t.email = body.email}
         IN /\ Routed(req, auth, "registerTeacher")
            /\ IF body.name = "" \/ body.department = "" \/ body.email = ""
                  \/ body.password = ""
               THEN Respond(p, "registerTeacher", gate, req, 400, MissingFieldsBody,
                            NoLoc, <<>>)
               ELSE IF query # {}
               THEN Respond(p, "registerTeacher", gate, req, 409,
                            [success |-> FALSE, message |-> "Teacher already exists"],
                            NoLoc, <<"findOne">>)
               ELSE /\ Room
                    /\ Suspend(p, "registerTeacher:create", "registerTeacher", gate,
                               req, NoLoc, <<"findOne">>)
    /\ UNCHANGED <<students, teachers, courses, nextId>>

\* the answer with the instance itself as its data
RegisteredWhole(newTeacher) ==
    [success |-> TRUE, message |-> "Teacher registered successfully",
     data |-> newTeacher]

\* lines 85-94: the answer of a registration
RegisteredBody(newTeacher) ==
    [success |-> TRUE, message |-> "Teacher registered successfully",
     data |-> [id |-> newTeacher.id, name |-> newTeacher.name,
               department |-> newTeacher.department,
               email |-> newTeacher.email]]

\* lines 78-94: the hash, the create and the answer
registerTeacher_create(p) ==
    /\ At(p, "registerTeacher:create")
    /\ LET me == proc[p]
           body == me.req.body
           hashedPassword == bcryptHash(body.password, 10)
           newTeacher == TeacherRow(nextId.Teacher, body.name, body.department,
                                    body.email, hashedPassword)
       IN /\ teachers' = teachers \cup {newTeacher}
          /\ nextId' = [nextId EXCEPT !.Teacher = @ + 1]
          /\ Respond(p, me.handler, me.gate, me.req, 201,
                     RegisteredBody(newTeacher), me.loc, Append(me.io, "create"))
    /\ UNCHANGED <<students, courses>>

NoTeacherBody == [success |-> FALSE, message |-> "Password or email already exist"]
InvalidPasswordBody == [success |-> FALSE, message |-> "Invalid Password"]

\* the token's payload: a property that is undefined is left out of the JSON
Payload(teacher) == Pick(teacher, {"email", "name", "id"} \cap DOMAIN teacher)

\* The lookup is the only storage call of the handler, so its awaits (findOne,
\* bcrypt.compare) are taken as one step.
loginTeacher(p) ==
    /\ At(p, "idle")
    /\ \E auth \in Auths, body \in LoginBodies :
         LET req == Request("teachers", "POST", <<"login">>, NoQuery, body)
             gate == Dispatch(req, auth).gate
             found == {t \in teachers : t.email = body.email}
         IN /\ Routed(req, auth, "loginTeacher")
            /\ IF body.email = "" \/ body.password = ""
               THEN Respond(p, "loginTeacher", gate, req, 400, MissingFieldsBody,
                            NoLoc, <<>>)
               ELSE IF found = {}
               THEN Respond(p, "loginTeacher", gate, req, 401, NoTeacherBody,
                            NoLoc, <<"findOne">>)
               ELSE \E row \in found :
                      LET teacher == Pick(row, {"id", "email", "password_hash"})
                          loc == [teacher |-> teacher]
                      IN IF teacher.password_hash = Null
                         THEN \* bcrypt.compare throws without a hash
                              Respond(p, "loginTeacher", gate, req, 500,
                                      [success |-> FALSE,
                                       message |-> "data and hash arguments required"],
                                      loc, <<"findOne">>)
                         ELSE IF ~bcryptCompare(body.password, teacher.password_hash)
                         THEN Respond(p, "loginTeacher", gate, req, 401,
                                      InvalidPasswordBody, loc, <<"findOne">>)
                         ELSE \E iat \in Times :
                                Respond(p, "loginTeacher", gate, req, 200,
                                        [success |-> TRUE,
                                         accessToken |->
                                            jwtSign(Payload(teacher),
                                                    JWT_SECRET_TOKEN, iat)],
                                        loc, <<"findOne">>)
    /\ UNCHANGED <<students, teachers, courses, nextId>>

\* whether the table takes a row without a password_hash is the schema's choice
CreateTeacherOutcomes(body) ==
    IF "password_hash" \in DOMAIN body THEN {"stored"} ELSE {"stored", "throws"}

createTeacher(p) ==
    /\ At(p, "idle")
    /\ \E auth \in Auths, body \in TeacherBodies :
         LET req == Request("teachers", "POST", Root, NoQuery, body)
             gate == Dispatch(req, auth).gate
             teacher == TeacherRow(nextId.Teacher, body.name, body.department,
                                   body.email,
                                   IF "password_hash" \in DOMAIN body
                                   THEN body.password_hash ELSE Null)
         IN /\ Routed(req, auth, "createTeacher")
            /\ \E outcome \in CreateTeacherOutcomes(body) :
                 IF outcome = "stored"
                 THEN /\ Room
                      /\ teachers' = teachers \cup {teacher}
                      /\ nextId' = [nextId EXCEPT !.Teacher = @ + 1]
                      /\ Respond(p, "createTeacher", gate, req, 201, teacher,
                                 NoLoc, <<"create">>)
                 ELSE /\ UNCHANGED <<teachers, nextId>>
                      /\ Respond(p, "createTeacher", gate, req, 500,
                                 [error |-> DbError], NoLoc, <<"create">>)
    /\ UNCHANGED <<students, courses>>

PositiveBody == [error |-> <<"Limit and page must be positive integers.">>]

\* lines 281-307: parse, validate, then the count
getAllTeachers(p) ==
    /\ At(p, "idle")
    /\ \E auth \in Auths, query \in ListQueries :
         LET req == Request("teachers", "GET", Root, query, NoBody)
             gate == Dispatch(req, auth).gate
             limit == OrDefault(parseInt(query.limit), 10)
             page == OrDefault(parseInt(query.page), 1)
             sort == SortOf(query.sort)
             populate == PopulateOf(query.populate)
             invalidRelations == filter(populate, validRelations)
             loc == [limit |-> limit, page |-> page, sort |-> sort,
                     include |-> IncludeOf(populate),
                     total |-> Cardinality(teachers)]
         IN /\ Routed(req, auth, "getAllTeachers")
            /\ IF limit <= 0 \/ page <= 0
               THEN Respond(p, "getAllTeachers", gate, req, 400, PositiveBody,
                            NoLoc, <<>>)
               ELSE IF ~ValidSort(sort)
               THEN Respond(p, "getAllTeachers", gate, req, 400, InvalidSortBody,
                            NoLoc, <<>>)
               ELSE IF Len(invalidRelations) > 0
               THEN Respond(p, "getAllTeachers", gate, req, 400,
                            InvalidPopulateBody(invalidRelations), NoLoc, <<>>)
               ELSE Suspend(p, "getAllTeachers:findAll", "getAllTeachers", gate, req,
                            loc, <<"count">>)
    /\ UNCHANGED <<students, teachers, courses, nextId>>

\* lines 308-325: the fetch and the envelope
getAllTeachers_findAll(p) ==
    /\ At(p, "getAllTeachers:findAll")
    /\ LET me == proc[p]
           loc == me.loc
           offset == (loc.page - 1) * loc.limit
           rows == Slice(Order(teachers, loc.sort), loc.limit, offset)
           data == [i \in 1..Len(rows) |-> TeacherWith(rows[i], loc.include)]
           io == Append(me.io, "findAll")
       IN \E outcome \in FindAllOutcomes(loc.limit, offset) :
            IF outcome = "throws"
            THEN Respond(p, me.handler, me.gate, me.req, 500, [error |-> DbError],
                         loc, io)
            ELSE Respond(p, me.handler, me.gate, me.req, 200,
                         Envelope(data, loc.total, loc.page, loc.limit), loc, io)
    /\ UNCHANGED <<students, teachers, courses, nextId>>

getTeacherById(p) ==
    /\ At(p, "idle")
    /\ \E auth \in Auths, id \in IdParams, query \in IdQueries :
         LET req == Request("teachers", "GET", <<id>>, query, NoBody)
             gate == Dispatch(req, auth).gate
             populate == PopulateOf(query.populate)
             invalidRelations == filter(populate, validRelations)
             found == findByPk(teachers, id)
         IN /\ Routed(req, auth, "getTeacherById")
            /\ IF Len(invalidRelations) > 0
               THEN Respond(p, "getTeacherById", gate, req, 400,
                            InvalidPopulateBody(invalidRelations), NoLoc, <<>>)
               ELSE IF found = {}
               THEN Respond(p, "getTeacherById", gate, req, 404, NotFoundBody,
                            NoLoc, <<"findByPk">>)
               ELSE \E teacher \in found :
                      Respond(p, "getTeacherById", gate, req, 200,
                              TeacherWith(teacher, IncludeOf(populate)),
                              NoLoc, <<"findByPk">>)
    /\ UNCHANGED <<students, teachers, courses, nextId>>

updateTeacher(p) ==
    /\ At(p, "idle")
    /\ \E auth \in Auths, id \in IdParams, body \in TeacherUpdates :
         LET req == Request("teachers", "PUT", <<id>>, NoQuery, body)
             gate == Dispatch(req, auth).gate
             found == findByPk(teachers, id)
         IN /\ Routed(req, auth, "updateTeacher")
            /\ IF found = {}
               THEN Respond(p, "updateTeacher", gate, req, 404, NotFoundBody,
                            NoLoc, <<"findByPk">>)
               ELSE \E teacher \in found :
                      Suspend(p, "updateTeacher:update", "updateTeacher", gate, req,
                              [teacher |-> teacher], <<"findByPk">>)
    /\ UNCHANGED <<students, teachers, courses, nextId>>

updateTeacher_update(p) ==
    /\ At(p, "updateTeacher:update")
    /\ LET me == proc[p]
           teacher == Merge(me.loc.teacher, me.req.body)
       IN /\ teachers' = {IF r.id = teacher.id THEN teacher ELSE r : r \in teachers}
          /\ Respond(p, me.handler, me.gate, me.req, 200, teacher, me.loc,
                     Append(me.io, "update"))
    /\ UNCHANGED <<students, courses, nextId>>

deleteTeacher(p) ==
    /\ At(p, "idle")
    /\ \E auth \in Auths, id \in IdParams :
         LET req == Request("teachers", "DELETE", <<id>>, NoQuery, NoBody)
             gate == Dispatch(req, auth).gate
             found == findByPk(teachers, id)
         IN /\ Routed(req, auth, "deleteTeacher")
            /\ IF found = {}
               THEN Respond(p, "deleteTeacher", gate, req, 404, NotFoundBody,
                            NoLoc, <<"findByPk">>)
               ELSE \E teacher \in found :
                      Suspend(p, "deleteTeacher:destroy", "deleteTeacher", gate, req,
                              [teacher |-> teacher], <<"findByPk">>)
    /\ UNCHANGED <<students, teachers, courses, nextId>>

deleteTeacher_destroy(p) ==
    /\ At(p, "deleteTeacher:destroy")
    /\ LET me == proc[p]
       IN /\ teachers' = {r \in teachers : r.id # me.loc.teacher.id}
          /\ Respond(p, me.handler, me.gate, me.req, 200, [message |-> "Deleted"],
                     me.loc, Append(me.io, "destroy"))
    /\ UNCHANGED <<students, courses, nextId>>

\* the identity the gate attaches to an accepted request
UserOf(auth) == [token |-> auth]

\* router.get('/checkTeacherAuth', ...)
checkTeacherAuth(p) ==
    /\ At(p, "idle")
    /\ \E auth \in Auths :
         LET req == Request("teachers", "GET", <<"checkTeacherAuth">>, NoQuery, NoBody)
             gate == Dispatch(req, auth).gate
         IN /\ Routed(req, auth, "checkTeacherAuth")
            /\ Respond(p, "checkTeacherAuth", gate, req, 200,
                       [success |-> TRUE, user |-> UserOf(auth)], NoLoc, <<>>)
    /\ UNCHANGED <<students, teachers, courses, nextId>>

TeacherStep(p) ==
    \/ registerTeacher(p)
    \/ registerTeacher_create(p)
    \/ loginTeacher(p)
    \/ createTeacher(p)
    \/ getAllTeachers(p)
    \/ getAllTeachers_findAll(p)
    \/ getTeacherById(p)
    \/ updateTeacher(p)
    \/ updateTeacher_update(p)
    \/ deleteTeacher(p)
    \/ deleteTeacher_destroy(p)
    \/ checkTeacherAuth(p)

(***************************************************************************)
(* Course controller: the same handlers over the Course table.             *)
(***************************************************************************)
CourseBodies == [title : {"logic"}]
CourseUpdates == [title : {"sets"}]
CourseRow(id, body) == [id |-> id, title |-> body.title]

createCourse(p) ==
    /\ At(p, "idle")
    /\ \E auth \in Auths, body \in CourseBodies :
         LET req == Request("courses", "POST", Root, NoQuery, body)
             gate == Dispatch(req, auth).gate
         IN /\ Routed(req, auth, "createCourse")
            /\ Room
            /\ courses' = courses \cup {CourseRow(nextId.Course, body)}
            /\ nextId' = [nextId EXCEPT !.Course = @ + 1]
            /\ Respond(p, "createCourse", gate, req, 201,
                       CourseRow(nextId.Course, body), NoLoc, <<"create">>)
    /\ UNCHANGED <<students, teachers>>

getAllCourses(p) ==
    /\ At(p, "idle")
    /\ \E auth \in Auths, query \in ListQueries :
         LET req == Request("courses", "GET", Root, query, NoBody)
             gate == Dispatch(req, auth).gate
             limit == OrDefault(parseInt(query.limit), 10)
             page == OrDefault(parseInt(query.page), 1)
             sort == SortOf(query.sort)
             populate == PopulateOf(query.populate)
             loc == [limit |-> limit, page |-> page, sort |-> sort,
                     include |-> <<>>, total |-> Cardinality(courses)]
         IN /\ Routed(req, auth, "getAllCourses")
            /\ IF limit <= 0 \/ page <= 0
               THEN Respond(p, "getAllCourses", gate, req, 400, PositiveBody,
                            NoLoc, <<>>)
               ELSE IF ~ValidSort(sort)
               THEN Respond(p, "getAllCourses", gate, req, 400, InvalidSortBody,
                            NoLoc, <<>>)
               ELSE IF Len(populate) > 0
               THEN Respond(p, "getAllCourses", gate, req, 400,
                            InvalidPopulateBody(populate), NoLoc, <<>>)
               ELSE Suspend(p, "getAllCourses:findAll", "getAllCourses", gate, req,
                            loc, <<"count">>)
    /\ UNCHANGED <<students, teachers, courses, nextId>>

getAllCourses_findAll(p) ==
    /\ At(p, "getAllCourses:findAll")
    /\ LET me == proc[p]
           loc == me.loc
           offset == (loc.page - 1) * loc.limit
           data == Slice(Order(courses, loc.sort), loc.limit, offset)
       IN Respond(p, me.handler, me.gate, me.req, 200,
                  Envelope(data, loc.total, loc.page, loc.limit), loc,
                  Append(me.io, "findAll"))
    /\ UNCHANGED <<students, teachers, courses, nextId>>

getCourseById(p) ==
    /\ At(p, "idle")
    /\ \E auth \in Auths, id \in IdParams :
         LET req == Request("courses", "GET", <<id>>, NoQuery, NoBody)
             gate == Dispatch(req, auth).gate
             found == findByPk(courses, id)
         IN /\ Routed(req, auth, "getCourseById")
            /\ IF found = {}
               THEN Respond(p, "getCourseById", gate, req, 404, NotFoundBody,
                            NoLoc, <<"findByPk">>)
               ELSE \E course \in found :
                      Respond(p, "getCourseById", gate, req, 200, course,
                              NoLoc, <<"findByPk">>)
    /\ UNCHANGED <<students, teachers, courses, nextId>>

updateCourse(p) ==
    /\ At(p, "idle")
    /\ \E auth \in Auths, id \in IdParams, body \in CourseUpdates :
         LET req == Request("courses", "PUT", <<id>>, NoQuery, body)
             gate == Dispatch(req, auth).gate
             found == findByPk(courses, id)
         IN /\ Routed(req, auth, "updateCourse")
            /\ IF found = {}
               THEN Respond(p, "updateCourse", gate, req, 404, NotFoundBody,
                            NoLoc, <<"findByPk">>)
               ELSE \E course \in found :
                      Suspend(p, "updateCourse:update", "updateCourse", gate, req,
                              [course |-> course], <<"findByPk">>)
    /\ UNCHANGED <<students, teachers, courses, nextId>>

updateCourse_update(p) ==
    /\ At(p, "updateCourse:update")
    /\ LET me == proc[p]
           course == Merge(me.loc.course, me.req.body)
       IN /\ courses' = {IF r.id = course.id THEN course ELSE r : r \in courses}
          /\ Respond(p, me.handler, me.gate, me.req, 200, course, me.loc,
                     Append(me.io, "update"))
    /\ UNCHANGED <<students, teachers, nextId>>

deleteCourse(p) ==
    /\ At(p, "idle")
    /\ \E auth \in Auths, id \in IdParams :
         LET req == Request("courses", "DELETE", <<id>>, NoQuery, NoBody)
             gate == Dispatch(req, auth).gate
             found == findByPk(courses, id)
         IN /\ Routed(req, auth, "deleteCourse")
            /\ IF found = {}
               THEN Respond(p, "deleteCourse", gate, req, 404, NotFoundBody,
                            NoLoc, <<"findByPk">>)
               ELSE \E course \in found :
                      Suspend(p, "deleteCourse:destroy", "deleteCourse", gate, req,
                              [course |-> course], <<"findByPk">>)
    /\ UNCHANGED <<students, teachers, courses, nextId>>

deleteCourse_destroy(p) ==
    /\ At(p, "deleteCourse:destroy")
    /\ LET me == proc[p]
       IN /\ courses' = {r \in courses : r.id # me.loc.course.id}
          /\ Respond(p, me.handler, me.gate, me.req, 200, [message |-> "Deleted"],
                     me.loc, Append(me.io, "destroy"))
    /\ UNCHANGED <<students, teachers, nextId>>

CourseStep(p) ==
    \/ createCourse(p)
    \/ getAllCourses(p)
    \/ getAllCourses_findAll(p)
    \/ getCourseById(p)
    \/ updateCourse(p)
    \/ updateCourse_update(p)
    \/ deleteCourse(p)
    \/ deleteCourse_destroy(p)

(***************************************************************************)
(* The gate turning a request away, and the system.                        *)
(***************************************************************************)
Methods == {"GET", "POST", "PUT", "DELETE"}
Paths == {Root, <<"register">>, <<"login">>, <<"checkTeacherAuth">>}
             \cup {<<id>> : id \in IdParams}

\* no handler runs for a request the gate does not accept
validation_reject(p) ==
    /\ At(p, "idle")
    /\ \E auth \in Auths, router \in {"students", "teachers", "courses"},
          method \in Methods, path \in Paths :
         LET req == Request(router, method, path, NoQuery, NoBody)
         IN /\ Routed(req, auth, "rejected")
            /\ Respond(p, "rejected", "rejected", req, 401,
                       [message |-> "Unauthorized"], NoLoc, <<>>)
    /\ UNCHANGED <<students, teachers, courses, nextId>>

Step(p) ==
    \/ StudentStep(p)
    \/ TeacherStep(p)
    \/ CourseStep(p)
    \/ validation_reject(p)

\* requests are handled concurrently: their steps interleave at the awaits
Next == send \/ \E p \in Procs : Step(p)

Spec == Init /\ [][Next]_vars

\* requests arrive one after the other: each is answered before the next starts
SerialNext == send \/ \E p \in {"p1"} : Step(p)

Serial == Init /\ [][SerialNext]_vars

\* the count-then-fetch race: list requests run while other requests create
\* and delete records of the same tables, their steps interleaved at the awaits
ListStep(p) ==
    \/ getAllStudents(p)
    \/ getAllStudents_findAll(p)
    \/ getAllTeachers(p)
    \/ getAllTeachers_findAll(p)

WriteStep(p) ==
    \/ createStudent(p)
    \/ deleteStudent(p)
    \/ deleteStudent_destroy(p)
    \/ createTeacher(p)
    \/ deleteTeacher(p)
    \/ deleteTeacher_destroy(p)

\* one request lists while the other writes
RaceNext == send \/ ListStep("p1") \/ WriteStep("p2")

Race == Init /\ [][RaceNext]_vars

\* concurrent registrations: each a findOne followed, after the awaits of the
\* lookup and of the hashing, by a create
RegisterStep(p) ==
    \/ registerTeacher(p)
    \/ registerTeacher_create(p)

RegisterNext == send \/ \E p \in Procs : RegisterStep(p)

Registering == Init /\ [][RegisterNext]_vars

(***************************************************************************)
(* Properties.                                                             *)
(***************************************************************************)
Sent == resp # NoResp
ListHandlers == {"getAllStudents", "getAllTeachers"}
ByIdHandlers == {"getStudentById", "getTeacherById"}
ListSent == Sent /\ resp.handler \in ListHandlers

\* the request reached storage with its parsed page and limit
Fetched == ListSent /\ "limit" \in DOMAIN resp.loc

\* n is the ceiling of a / b, for b > 0
IsCeiling(n, a, b) == n * b >= a /\ (n - 1) * b < a

\* C1: a list request that is accepted with page >= 1 and limit >= 1 is answered
\* with an envelope whose meta.total is the count of that request, whose
\* meta.limit is the limit of its fetch and whose meta.totalPages is the
\* ceiling of total / limit.
C1_TotalPages ==
    (Fetched /\ resp.loc.page >= 1 /\ resp.loc.limit >= 1)
        => /\ resp.status = 200
           /\ resp.io = <<"count", "findAll">>
           /\ resp.body.meta.total = resp.loc.total
           /\ resp.body.meta.limit = resp.loc.limit
           /\ IsCeiling(resp.body.meta.totalPages, resp.body.meta.total,
                        resp.body.meta.limit)

\* one stored Teacher, two per page: one page, where the quotient rounds up
C1_Witness ==
    /\ Fetched
    /\ resp.handler = "getAllTeachers"
    /\ resp.status = 200
    /\ resp.body.meta.total = 1
    /\ resp.body.meta.limit = 2
    /\ resp.body.meta.totalPages = 1

\* the parameter parses to an integer that is not positive
ParsesNonPositive(raw) == ~parseInt(raw).nan /\ parseInt(raw).val <= 0

\* C2: a list request whose limit or page parses to an integer <= 0 is answered
\* 400, and neither the count nor the fetch is issued.
C2_RejectsNonPositive ==
    (ListSent /\ (\/ ParsesNonPositive(resp.req.query.limit)
                  \/ ParsesNonPositive(resp.req.query.page)))
        => resp.status = 400 /\ resp.io = <<>>

\* s and t are the same text but for the case of their letters
SameButCase(s, t) ==
    /\ Len(s) = Len(t)
    /\ \A i \in 1..Len(s) : UpperChar(s[i]) = UpperChar(t[i])

\* the request gives a sort value, and it is neither asc nor desc
BadSort(raw) ==
    /\ Len(raw) > 0
    /\ ~SameButCase(raw, <<"a", "s", "c">>)
    /\ ~SameButCase(raw, <<"d", "e", "s", "c">>)

\* C3: a list request whose sort value is, case-insensitively, neither asc nor
\* desc is answered 400 without a count or a fetch.
C3_RejectsBadSort ==
    (ListSent /\ BadSort(resp.req.query.sort))
        => resp.status = 400 /\ resp.io = <<>>

\* the page and limit are fine and the sort is not: the sort check answers
C3_Witness ==
    /\ ListSent
    /\ resp.handler = "getAllStudents"
    /\ resp.req.query.sort = <<"u", "p">>
    /\ resp.req.query.limit = <<"2">>
    /\ resp.status = 400
    /\ resp.body = InvalidSortBody

\* the entries of a populate parameter that are not courseId
BadEntries(raw) ==
    LET entries == PopulateOf(raw)
    IN {entries[i] : i \in {j \in 1..Len(entries) : entries[j] # CourseIdText}}

\* the text has the entry in it
Occurs(text, entry) ==
    \E k \in 0..(Len(text) - Len(entry)) :
        \A i \in 1..Len(entry) : text[k + i] = entry[i]

\* the request has no other parameter that an earlier check turns down
OnlyPopulate(query) ==
    /\ ~ParsesNonPositive(query.limit)
    /\ ~ParsesNonPositive(query.page)
    /\ ~BadSort(query.sort)

\* C4: a list or get-by-id request whose populate has an entry outside
\* {courseId} is answered 400, the error names every invalid entry and not the
\* valid one, and storage is not accessed.  (Stated of the requests whose other
\* parameters are valid, so that no earlier check answers in its place.)
C4_RejectsBadPopulate ==
    (/\ Sent
     /\ resp.handler \in ListHandlers \cup ByIdHandlers
     /\ OnlyPopulate(resp.req.query)
     /\ BadEntries(resp.req.query.populate) # {})
        => /\ resp.status = 400
           /\ resp.io = <<>>
           /\ \A e \in BadEntries(resp.req.query.populate) :
                 Occurs(resp.body.error, e)
           /\ ~Occurs(resp.body.error, CourseIdText)

\* C4 as far as the code keeps it: the Teacher endpoints and the Student list
\* turn such a request down, naming the invalid entries
PopulateChecked ==
    (/\ Sent
     /\ resp.handler \in {"getAllStudents", "getAllTeachers", "getTeacherById"}
     /\ OnlyPopulate(resp.req.query)
     /\ BadEntries(resp.req.query.populate) # {})
        => /\ resp.status = 400
           /\ resp.io = <<>>
           /\ \A e \in BadEntries(resp.req.query.populate) :
                 Occurs(resp.body.error, e)
           /\ ~Occurs(resp.body.error, CourseIdText)

RegisterSent == Sent /\ resp.handler = "registerTeacher"
LoginSent == Sent /\ resp.handler = "loginTeacher"

\* the body has the four required fields
FullBody(body) ==
    body.name # "" /\ body.department # "" /\ body.email # "" /\ body.password # ""

Triple(t) == <<t.name, t.department, t.email>>
StoredTriple(body) == {t \in teachers : Triple(t) = Triple(body)}

\* the step is the first step of a registerTeacher call of p
RegisterCalled(p) ==
    /\ proc[p].pc = "idle"
    /\ resp = NoResp
    /\ \/ proc'[p].pc = "registerTeacher:create"
       \/ proc'[p].pc = "idle" /\ resp'.handler = "registerTeacher"

\* the body of the call that the step starts
CalledBody(p) ==
    IF proc'[p].pc = "registerTeacher:create" THEN proc'[p].req.body
    ELSE resp'.req.body

\* the step is the last step of a registerTeacher call that found no Teacher
RegisterCreated(p) ==
    proc[p].pc = "registerTeacher:create" /\ proc'[p].pc = "idle"

\* C5: registerTeacher called twice in sequence with the same (name, department,
\* email) and the four required fields.  The first call, which finds no Teacher
\* of the triple, stores exactly one Teacher, of that triple, and answers 201
\* with a body whose data has only id, name, department and email; it leaves
\* the triple stored.  The second call, which starts with the triple stored,
\* answers 409 and stores nothing.
C5_RegisterTwice ==
    [][\A p \in {"p1"} :
         /\ (RegisterCalled(p) /\ FullBody(CalledBody(p))
                 /\ StoredTriple(CalledBody(p)) = {})
               => /\ proc'[p].pc = "registerTeacher:create"
                  /\ teachers' = teachers
         /\ RegisterCreated(p)
               => /\ resp'.status = 201
                  /\ DOMAIN resp'.body = {"success", "message", "data"}
                  /\ DOMAIN resp'.body.data = {"id", "name", "department", "email"}
                  /\ \E t \in teachers' \ teachers :
                        /\ teachers' = teachers \cup {t}
                        /\ Triple(t) = Triple(proc[p].req.body)
                        /\ resp'.body.data = Pick(t, {"id", "name", "department", "email"})
         /\ (RegisterCalled(p) /\ FullBody(CalledBody(p))
                 /\ StoredTriple(CalledBody(p)) # {})
               => /\ proc'[p].pc = "idle"
                  /\ resp'.status = 409
                  /\ DOMAIN resp'.body = {"success", "message"}
                  /\ teachers' = teachers
      ]_vars

\* the second call is answered 409, and the one Teacher of its triple is the
\* one a first call stored (its hash is the hash of the call's password)
C5_Witness ==
    /\ RegisterSent
    /\ resp.status = 409
    /\ FullBody(resp.req.body)
    /\ \E t \in teachers :
          /\ StoredTriple(resp.req.body) = {t}
          /\ t.password_hash = bcryptHash(resp.req.body.password, 10)

\* the record has a password hash
HasHash(record) ==
    "password_hash" \in DOMAIN record /\ record.password_hash # Null

\* the body of the response has a Teacher's password hash in it
BodyHasHash ==
    \/ HasHash(resp.body)
    \/ /\ resp.handler = "registerTeacher"
       /\ "data" \in DOMAIN resp.body
       /\ HasHash(resp.body.data)
    \/ /\ resp.handler = "getAllTeachers"
       /\ "data" \in DOMAIN resp.body
       /\ \E i \in 1..Len(resp.body.data) : HasHash(resp.body.data[i])
    \/ /\ "accessToken" \in DOMAIN resp.body
       /\ HasHash(resp.body.accessToken.payload)

\* the lookup of the login found a Teacher whose stored hash is not a hash of
\* the password
WrongPassword ==
    /\ LoginSent
    /\ "teacher" \in DOMAIN resp.loc
    /\ resp.loc.teacher.email = resp.req.body.email
    /\ resp.loc.teacher.password_hash # Null
    /\ resp.loc.teacher.password_hash.password # resp.req.body.password

\* C6: a login with the email of a stored Teacher and a password that does not
\* verify against that Teacher's stored hash is answered 401, never 200 with an
\* access token, and the body does not have the stored hash.
C6_WrongPassword401 ==
    WrongPassword
        => /\ resp.status = 401
           /\ "accessToken" \notin DOMAIN resp.body
           /\ resp.body.success = FALSE
           /\ ~BodyHasHash

\* ann, registered with pw1, logs in with pw2 and is answered 401
C6_Witness ==
    /\ WrongPassword
    /\ resp.loc.teacher.password_hash = bcryptHash("pw1", 10)
    /\ resp.req.body.password = "pw2"
    /\ resp.status = 401

\* C7: a login is answered the same, in status and message, when the password
\* does not match as when no Teacher has the email.
C7_SameFailure ==
    WrongPassword
        => /\ resp.status = 401
           /\ resp.body.message = NoTeacherBody.message

TeacherHandlers ==
    {"registerTeacher", "loginTeacher", "createTeacher", "getAllTeachers",
     "getTeacherById", "updateTeacher", "deleteTeacher"}

\* C8: no response to a Teacher operation has a Teacher's password_hash.
\* (Stated of the requests that do not bring a password_hash themselves, so
\* that a hash in the response is one that was stored before.)
C8_NoHashReturned ==
    (/\ Sent
     /\ resp.handler \in TeacherHandlers
     /\ "password_hash" \notin DOMAIN resp.req.body)
        => ~BodyHasHash

\* the stored Teacher that the lookup of the login returned
Matched == CHOOSE t \in teachers : t.id = resp.loc.teacher.id

\* C9: the token of a successful login carries the id, name and email of the
\* Teacher that matched the login email, and expires one hour after its issue.
C9_TokenClaims ==
    (LoginSent /\ resp.status = 200)
        => LET token == resp.body.accessToken
           IN /\ DOMAIN token.payload = {"id", "name", "email"}
              /\ token.payload = Pick(Matched, {"id", "name", "email"})
              /\ token.exp = token.iat + 3600

\* C9 as far as the code keeps it: the id and the email, and the hour
TokenIdEmail ==
    (LoginSent /\ resp.status = 200)
        => LET token == resp.body.accessToken
           IN /\ token.payload = Pick(Matched, {"id", "email"})
              /\ token.exp = token.iat + 3600

StudentHandlers ==
    {"createStudent", "getAllStudents", "getStudentById", "updateStudent",
     "deleteStudent"}
CourseHandlers ==
    {"createCourse", "getAllCourses", "getCourseById", "updateCourse",
     "deleteCourse"}
AuthHandlers == {"registerTeacher", "loginTeacher"}

\* what the gate did for each request whose handler has run or is running
GateOf(h) ==
    (IF Sent /\ resp.handler = h THEN {resp.gate} ELSE {})
        \cup {proc[p].gate : p \in {q \in Procs : /\ proc[q].pc # "idle"
                                                    /\ proc[q].handler = h}}

\* C10 as claimed: the Teacher routes other than /register and /login run their
\* handler only after the gate accepted the request; /register, /login and every
\* Student and Course route run it without the gate having run.
C10_GateAsClaimed ==
    /\ \A h \in (TeacherHandlers \ AuthHandlers) \cup {"checkTeacherAuth"} :
          GateOf(h) \subseteq {"accepted"}
    /\ \A h \in AuthHandlers \cup StudentHandlers \cup CourseHandlers :
          GateOf(h) \subseteq {"skipped"}

\* C10 amended: the Teacher routes other than /register and /login and every
\* Course route run their handler only after the gate accepted the request;
\* /register, /login and every Student route run it without the gate having
\* run; a request the gate turns away reaches no handler.
C10_Gate ==
    /\ \A h \in (TeacherHandlers \ AuthHandlers) \cup {"checkTeacherAuth"}
                  \cup CourseHandlers :
          GateOf(h) \subseteq {"accepted"}
    /\ \A h \in AuthHandlers \cup StudentHandlers :
          GateOf(h) \subseteq {"skipped"}
    /\ Sent /\ resp.gate = "rejected" => resp.handler = "rejected"

\* a Course handler has run, behind the gate
C10_Witness ==
    /\ Sent
    /\ resp.handler = "deleteCourse"
    /\ resp.status = 200
    /\ resp.gate = "accepted"

DeleteHandlers == {"deleteStudent", "deleteTeacher", "deleteCourse"}

\* the table a delete handler works on
TableOf(h) ==
    IF h = "deleteStudent" THEN students
    ELSE IF h = "deleteTeacher" THEN teachers
    ELSE courses

\* the step is the first step of a call of handler h by p
Called(p, h) ==
    /\ proc[p].pc = "idle"
    /\ resp = NoResp
    /\ \/ proc'[p].pc # "idle" /\ proc'[p].handler = h
       \/ proc'[p].pc = "idle" /\ resp'.handler = h

\* the request of the call that the step starts
CalledReq(p) == IF proc'[p].pc # "idle" THEN proc'[p].req ELSE resp'.req

\* the id of the request matches no record of the table
NoSuchRecord(h, req) == \A r \in TableOf(h) : ToString(r.id) # req.path[1]

\* C11: for every resource type, a delete request for an id that matches no
\* stored record is answered 404 at once, after the lookup alone, and no record
\* is removed from any table.
C11_DeleteMissing ==
    [][\A p \in {"p1"} : \A h \in DeleteHandlers :
         (Called(p, h) /\ NoSuchRecord(h, CalledReq(p)))
            => /\ proc'[p].pc = "idle"
               /\ resp'.status = 404
               /\ resp'.body = NotFoundBody
               /\ resp'.io = <<"findByPk">>
               /\ students' = students
               /\ teachers' = teachers
               /\ courses' = courses
      ]_vars

\* a Teacher is stored, and a delete of another id is answered 404
C11_Witness ==
    /\ Sent
    /\ resp.handler = "deleteTeacher"
    /\ resp.status = 404
    /\ teachers # {}
    /\ \A t \in teachers : ToString(t.id) # resp.req.path[1]

\* the table a list handler counts and fetches
ListTable(h) == IF h = "getAllStudents" THEN students ELSE teachers

\* the list request of p has counted and has not fetched yet
Listing(p) ==
    proc[p].pc \in {"getAllStudents:findAll", "getAllTeachers:findAll"}

\* the count of the request is the number of records there are now
Agree(p) == proc[p].loc.total = Cardinality(ListTable(proc[p].handler))

\* the rows that a page of limit rows has of total rows
PageRows(total, page, limit) ==
    LET rest == total - (page - 1) * limit
    IN IF rest <= 0 THEN 0 ELSE Min(limit, rest)

\* C12: the count and the fetch of a list request are two storage steps.  The
\* count is the number of records at its step; as long as no step in between
\* writes to the table the count stays the number of records, and then the
\* fetch answers with a meta.total that is the number of records when it runs
\* and with the rows of the page of that many records.  (That a delete in
\* between makes meta.total larger than that number is C12_Witness.)
C12_CountThenFetch ==
    [][\A p \in {"p1"} :
         /\ (proc[p].pc = "idle" /\ Listing(p)') => Agree(p)'
         /\ (/\ Listing(p) /\ Listing(p)' /\ Agree(p)
             /\ ListTable(proc[p].handler)' = ListTable(proc[p].handler))
               => Agree(p)'
         /\ (Listing(p) /\ proc'[p].pc = "idle")
               => /\ resp'.handler = proc[p].handler
                  /\ resp'.io = <<"count", "findAll">>
                  /\ resp'.status = 200
                       => /\ resp'.body.meta.total = proc[p].loc.total
                          /\ Agree(p)
                               => resp'.body.meta.total
                                     = Cardinality(ListTable(proc[p].handler))
                          /\ (Agree(p) /\ proc[p].loc.limit >= 1
                                       /\ proc[p].loc.page >= 1)
                               => Len(resp'.body.data)
                                     = PageRows(resp'.body.meta.total,
                                                proc[p].loc.page,
                                                proc[p].loc.limit)
      ]_vars

\* two Students were counted, one was deleted before the fetch: the envelope
\* says total 2 on a page of up to two rows, and has the one row that is left
C12_Witness ==
    /\ Sent
    /\ resp.handler = "getAllStudents"
    /\ resp.status = 200
    /\ resp.body.meta.total = 2
    /\ resp.body.meta.limit = 2
    /\ resp.body.meta.page = 1
    /\ Len(resp.body.data) = 1
    /\ Cardinality(students) = 1

\* C13 as claimed: after any interleaving of concurrent registerTeacher
\* requests, storage holds at most one Teacher of any (name, department, email).
C13_AtMostOne ==
    \A t, u \in teachers : Triple(t) = Triple(u) => t = u

\* the registration of p has looked up its triple and has not created yet
Registration(p) == proc[p].pc = "registerTeacher:create"

\* C13 amended: a registerTeacher request goes on to its create only when its
\* findOne found no Teacher of its triple; its create stores exactly one
\* Teacher, of that triple, whatever is stored by then, and is answered 201;
\* nothing else stores a Teacher; and a second Teacher of a triple comes to be
\* stored only by the create of a request whose triple another request stored
\* after its findOne.
C13_OnePerLookup ==
    [][/\ \A p \in Procs :
            /\ (~Registration(p) /\ Registration(p)')
                  => /\ StoredTriple(proc'[p].req.body) = {}
                     /\ teachers' = teachers
            /\ (Registration(p) /\ ~Registration(p)')
                  => /\ resp'.status = 201
                     /\ \E t \in teachers' \ teachers :
                           /\ teachers' = teachers \cup {t}
                           /\ Triple(t) = Triple(proc[p].req.body)
                     /\ (StoredTriple(proc[p].req.body) = {} /\ C13_AtMostOne)
                           => C13_AtMostOne'
       /\ teachers' # teachers
            => \E p \in Procs : Registration(p) /\ ~Registration(p)'
       /\ (C13_AtMostOne /\ ~C13_AtMostOne')
            => \E p \in Procs :
                  /\ Registration(p) /\ ~Registration(p)'
                  /\ StoredTriple(proc[p].req.body) # {}
      ]_vars

\* both requests were answered 201 and two Teachers of one triple are stored
C13_Witness ==
    /\ RegisterSent
    /\ resp.status = 201
    /\ Cardinality(StoredTriple(resp.req.body)) = 2
    /\ \A p \in Procs : proc[p].pc = "idle"

====
